---------------------------- MODULE Spec2Model ----------------------------
(***************************************************************************)
(* bird-plot: the coordinate projector of bird_plot/cli.py                 *)
(* (process_personality_data and its nested sigmoid_scale) and the radar   *)
(* geometry and polygon-overlap estimator of bird_plot/plots/radar.py      *)
(* (calculate_angles, calculate_overlap, _format_title, radar_chart), and  *)
(* the run of main in radar and scatter mode (generate_radar_charts,       *)
(* calculate_team_average, the call of scatter_chart).                     *)
(*                                                                         *)
(* Floating-point values are modelled as records [kind, fp]: kind is       *)
(* "num", "nan" or "inf", and fp is the value in units of 1/Scale (fixed   *)
(* point, sign kept).  Trait scores are integers, as read from the CSV.    *)
(***************************************************************************)
EXTENDS Integers, Sequences, FiniteSets, TLC

VARIABLES
    file,         \* the CSV file named by --data: [exists, columns, rows]
    pc,           \* position of the run inside process_personality_data
    df,           \* the DataFrame: [columns, rows]
    df_adjusted,  \* the boosted copy of the four trait columns, one record per row
    X,            \* df["X"]: integers after axis combination, floats after scaling
    Y,            \* df["Y"]
    err,          \* the exception or exit that ended the run, or NoErr
    \* radar.py
    data1,          \* radar_chart's data1: the four trait scores of a record
    data2,          \* radar_chart's data2: <<>> for None, else <<record>>
    categories,     \* the category list handed to calculate_angles
    values1,        \* the magnitudes handed to calculate_angles
    angles,         \* the angles calculate_angles returned
    values1_array,  \* the closed magnitudes of data1
    values2_array,  \* the closed magnitudes of data2
    polygon1,       \* calculate_overlap's Path of data1: its vertices
    polygon2,       \* calculate_overlap's Path of data2
    bbox,           \* the bounding box of both polygons
    in_poly1,       \* contains_points of polygon1, one flag per sampled point
    in_poly2,       \* contains_points of polygon2
    overlap,        \* calculate_overlap's result, <<>> before it returns
    steps,          \* the drawing steps radar_chart has invoked, in order
    title,          \* radar_chart's title, <<>> before it is set
    \* cli.py: main in radar or scatter mode
    graph_type,     \* args.graph_type
    names,          \* the Name column of the file, one string per row
    team_avg,       \* calculate_team_average's dict, <<>> before it is computed
    row_idx,        \* the record generate_radar_charts' outer loop is at, 0 outside
    person_dir,     \* the directory of that record, <<>> before it is computed
    dirs,           \* the directories that exist
    requests        \* the radar_chart calls made so far: [data1, data2, filename]

projVars == <<file, df, df_adjusted, X, Y>>
radarVars == <<data1, data2, categories, values1, angles, values1_array,
               values2_array, polygon1, polygon2, bbox, in_poly1, in_poly2, overlap,
               steps, title>>
mainVars == <<graph_type, names, team_avg, row_idx, person_dir, dirs, requests>>
vars == <<pc, err, projVars, radarVars, mainVars>>

-----------------------------------------------------------------------------
(* Bounds of the model *)

\* largest trait score of a single-record file
MaxScore == 10
\* largest number of rows of a multi-record file
MaxRows == 3
\* fixed-point resolution of the modelled floats: fp counts units of 1/Scale
Scale == 10000

\* trait scores of the single-record files
Scores == 0..MaxScore
\* trait scores of the multi-record files: absent (0) or present (6, boosted to 7)
BatchScores == {0, 6}

-----------------------------------------------------------------------------
(* Program constants *)

personality_cols == <<"Dove", "Owl", "Peacock", "Eagle">>
max_value == 25

NoFile == [exists |-> FALSE, columns |-> {}, rows |-> <<>>]
NoErr == [kind |-> "none", missing |-> {}]
NoFrame == [columns |-> {}, rows |-> <<>>]
NoData == [Owl |-> 0, Dove |-> 0, Peacock |-> 0, Eagle |-> 0]

Range(s) == {s[i] : i \in DOMAIN s}
Abs(n) == IF n < 0 THEN -n ELSE n
Sign(n) == IF n < 0 THEN -1 ELSE IF n > 0 THEN 1 ELSE 0

-----------------------------------------------------------------------------
(* Floats *)

FNum(n) == [kind |-> "num", fp |-> n]
NaN == [kind |-> "nan", fp |-> 0]
Inf(sgn) == [kind |-> "inf", fp |-> sgn]

\* series / series.abs().max(), one element: integer v over integer m, as a
\* float.  0/0 is NaN and v/0 is +-inf (true division of a Series raises nothing).
TrueDivide(v, m) ==
    IF m = 0 THEN (IF v = 0 THEN NaN ELSE Inf(Sign(v)))
    ELSE FNum(Sign(v) * Sign(m) * ((Abs(v) * Scale) \div Abs(m)))

\* tanh of a fixed-point argument 0 <= q <= Scale, by Lambert's continued
\* fraction x / (1 + x^2/(3 + x^2/(5 + x^2/(7 + x^2/9)))).
TanhFP(q) ==
    LET x2 == (q * q) \div Scale
        d4 == 7 * Scale + (x2 * Scale) \div (9 * Scale)
        d3 == 5 * Scale + (x2 * Scale) \div d4
        d2 == 3 * Scale + (x2 * Scale) \div d3
        d1 == Scale + (x2 * Scale) \div d2
    IN  (q * Scale) \div d1

\* np.tanh: odd, tanh(nan) = nan, tanh(+-inf) = +-1.
Tanh(f) ==
    IF f.kind = "nan" THEN NaN
    ELSE IF f.kind = "inf" THEN FNum(f.fp * Scale)
    ELSE FNum(Sign(f.fp) * TanhFP(Abs(f.fp)))

\* integer * float
Times(k, f) ==
    IF f.kind = "nan" THEN NaN
    ELSE IF f.kind = "inf" THEN (IF k = 0 THEN NaN ELSE Inf(Sign(k) * f.fp))
    ELSE FNum(k * f.fp)

-----------------------------------------------------------------------------
(* process_personality_data *)

RECURSIVE MaxOf(_)
MaxOf(S) ==
    LET x == CHOOSE y \in S : TRUE
    IN  IF S = {x} THEN x
        ELSE LET m == MaxOf(S \ {x}) IN IF x > m THEN x ELSE m

\* series.abs().max() of an integer series with an element
AbsMax(series) == MaxOf({Abs(series[i]) : i \in DOMAIN series})

\* df[personality_cols].max(axis=1) for one row
max_scores(row) == MaxOf({row[c] : c \in Range(personality_cols)})

\* Boost with the factor left out
Boost_Unboosted(score) == score

\* (score * 1.2).astype(int): the product truncated toward zero
Boost(score) == Sign(score) * ((Abs(score) * 12) \div 10)

\* Adjust boosting only the first column that holds the maximum (as idxmax would)
Adjust_FirstMaxOnly(row) ==
    LET first == CHOOSE k \in DOMAIN personality_cols :
                    /\ row[personality_cols[k]] = MaxOf({row[c] : c \in DOMAIN row})
                    /\ \A j \in 1..(k - 1) :
                          row[personality_cols[j]] # MaxOf({row[c] : c \in DOMAIN row})
    IN  [c \in DOMAIN row |->
            IF c = personality_cols[first] THEN (row[c] * 12) \div 10 ELSE row[c]]

\* .where(~eq(max_scores), df * 1.2).astype(int) for one row: a trait equal to
\* the row maximum takes the boosted value, every other keeps its own
Adjust(row) ==
    [c \in Range(personality_cols) |->
        IF row[c] = max_scores(row) THEN Boost(row[c]) ELSE row[c]]

CombineX(adj) == (adj["Dove"] + adj["Owl"]) - (adj["Peacock"] + adj["Eagle"])
CombineY(adj) == (adj["Peacock"] + adj["Dove"]) - (adj["Eagle"] + adj["Owl"])

\* sigmoid_scale dividing every element by its own magnitude, not the batch maximum
sigmoid_scale_PerRow(series) ==
    [i \in DOMAIN series |->
        Times(max_value, Tanh(TrueDivide(series[i], Abs(series[i]))))]

\* the nested sigmoid_scale(series)
sigmoid_scale(series) ==
    [i \in DOMAIN series |->
        Times(max_value, Tanh(TrueDivide(series[i], AbsMax(series))))]

MissingCols(frame) == Range(personality_cols) \ frame.columns

-----------------------------------------------------------------------------
(* Input files *)

AllCols == Range(personality_cols)

RowsOver(cols, scores, n) == [1..n -> [cols -> scores]]

\* an existing file with the given columns and rows
CsvFile(cols, rows) == [exists |-> TRUE, columns |-> cols, rows |-> rows]

-----------------------------------------------------------------------------
(* The run *)

\* The files of the model: none; one record with every score of 0..MaxScore;
\* 1..MaxRows records over BatchScores; one record of a table that lacks one or
\* more of the trait columns.
Init ==
    /\ \/ file = NoFile
       \/ \E r \in RowsOver(AllCols, Scores, 1) : file = CsvFile(AllCols, r)
       \/ \E n \in 1..MaxRows : \E r \in RowsOver(AllCols, BatchScores, n) :
             file = CsvFile(AllCols, r)
       \/ \E cols \in (SUBSET AllCols) \ {AllCols} :
             \E r \in RowsOver(cols, BatchScores, 1) : file = CsvFile(cols, r)
    /\ pc = "load"
    /\ df = NoFrame
    /\ df_adjusted = <<>>
    /\ X = <<>>
    /\ Y = <<>>
    /\ err = NoErr
    /\ data1 = NoData /\ data2 = <<>>
    /\ categories = <<>> /\ values1 = <<>>
    /\ angles = <<>> /\ values1_array = <<>> /\ values2_array = <<>>
    /\ polygon1 = <<>> /\ polygon2 = <<>> /\ bbox = <<>>
    /\ in_poly1 = <<>> /\ in_poly2 = <<>> /\ overlap = <<>>
    /\ steps = <<>> /\ title = <<>>
    /\ graph_type = "none" /\ names = <<>> /\ team_avg = <<>> /\ row_idx = 0
    /\ person_dir = <<>> /\ dirs = {} /\ requests = <<>>

\* load_csv_data: a missing file prints an error and exits with status 1
load_csv_data_exit ==
    /\ pc = "load"
    /\ ~file.exists
    /\ pc' = "exit"
    /\ err' = [kind |-> "SystemExit", missing |-> {}]
    /\ UNCHANGED <<file, df, df_adjusted, X, Y, radarVars, mainVars>>

load_csv_data ==
    /\ pc = "load"
    /\ file.exists
    /\ df' = [columns |-> file.columns, rows |-> file.rows]
    /\ pc' = "adjust"
    /\ UNCHANGED <<file, df_adjusted, X, Y, err, radarVars, mainVars>>

\* the KeyError swallowed: the run goes on as if the table were complete
adjust_raise_Swallowed ==
    /\ pc = "adjust"
    /\ {"Dove", "Owl", "Peacock", "Eagle"} \ df.columns # {}
    /\ pc' = "done"
    /\ UNCHANGED <<file, df, df_adjusted, X, Y, err, radarVars, mainVars>>

\* df[personality_cols] with a column absent raises KeyError naming the absent
\* columns; nothing catches it
adjust_raise ==
    /\ pc = "adjust"
    /\ MissingCols(df) # {}
    /\ pc' = "raised"
    /\ err' = [kind |-> "KeyError", missing |-> MissingCols(df)]
    /\ UNCHANGED <<file, df, df_adjusted, X, Y, radarVars, mainVars>>

\* the boost written into df itself instead of a separate copy
adjust_scores_InPlace ==
    /\ pc = "adjust"
    /\ {"Dove", "Owl", "Peacock", "Eagle"} \ df.columns = {}
    /\ df_adjusted' = [i \in DOMAIN df.rows |-> Adjust(df.rows[i])]
    /\ df' = [df EXCEPT !.rows = df_adjusted']
    /\ pc' = "coords"
    /\ UNCHANGED <<file, X, Y, err, radarVars, mainVars>>

adjust_scores ==
    /\ pc = "adjust"
    /\ MissingCols(df) = {}
    /\ df_adjusted' = [i \in DOMAIN df.rows |-> Adjust(df.rows[i])]
    /\ pc' = "coords"
    /\ UNCHANGED <<file, df, X, Y, err, radarVars, mainVars>>

\* the axes combined from the raw scores of df, as before the boost was introduced
calculate_coords_Raw ==
    /\ pc = "coords"
    /\ X' = [i \in DOMAIN df.rows |->
                (df.rows[i]["Dove"] + df.rows[i]["Owl"])
                    - (df.rows[i]["Peacock"] + df.rows[i]["Eagle"])]
    /\ Y' = [i \in DOMAIN df.rows |->
                (df.rows[i]["Peacock"] + df.rows[i]["Dove"])
                    - (df.rows[i]["Eagle"] + df.rows[i]["Owl"])]
    /\ df' = [df EXCEPT !.columns = @ \cup {"X", "Y"}]
    /\ pc' = "scaleX"
    /\ UNCHANGED <<file, df_adjusted, err, radarVars, mainVars>>

calculate_coords ==
    /\ pc = "coords"
    /\ X' = [i \in DOMAIN df_adjusted |-> CombineX(df_adjusted[i])]
    /\ Y' = [i \in DOMAIN df_adjusted |-> CombineY(df_adjusted[i])]
    /\ df' = [df EXCEPT !.columns = @ \cup {"X", "Y"}]
    /\ pc' = "scaleX"
    /\ UNCHANGED <<file, df_adjusted, err, radarVars, mainVars>>

scale_X ==
    /\ pc = "scaleX"
    /\ X' = sigmoid_scale(X)
    /\ pc' = "scaleY"
    /\ UNCHANGED <<file, df, df_adjusted, Y, err, radarVars, mainVars>>

scale_Y ==
    /\ pc = "scaleY"
    /\ Y' = sigmoid_scale(Y)
    /\ pc' = "done"
    /\ UNCHANGED <<file, df, df_adjusted, X, err, radarVars, mainVars>>

Next ==
    \/ load_csv_data_exit
    \/ load_csv_data
    \/ adjust_raise
    \/ adjust_scores
    \/ calculate_coords
    \/ scale_X
    \/ scale_Y

Spec == Init /\ [][Next]_vars


-----------------------------------------------------------------------------
(* radar.py: calculate_angles *)

\* largest number of categories handed to calculate_angles on its own
MaxCats == 6
\* largest magnitude of a radar polygon
MaxMag == 1
\* number of points calculate_overlap samples (10000 in the program)
NumSamples == 2
\* sampled coordinates are multiples of 1/GridDen of the vertex unit
GridDen == 2

\* the categories in the order of personality_cols of cli.py
ordered_categories_AsPersonalityCols == <<"Dove", "Owl", "Peacock", "Eagle">>
ordered_categories == <<"Owl", "Dove", "Peacock", "Eagle">>
CategoryNames == <<"Owl", "Dove", "Peacock", "Eagle", "Swan", "Wren", "Lark", "Crane">>

\* An angle is [num, den], standing for num/den * pi.
\* np.linspace(-pi/4, 2*pi - pi/4, n, endpoint=False): -pi/4 + k * (2*pi/n), k < n
linspace(n) == [i \in 1..n |-> [num |-> 8 * (i - 1) - n, den |-> 4 * n]]

\* calculate_angles closing the polygon with the last element instead of the first
calculate_angles_CloseWithLast(cats, vals) ==
    IF Len(cats) = 0 \/ Len(vals) = 0
    THEN [raised |-> TRUE, angles |-> <<>>, values |-> <<>>]
    ELSE [raised |-> FALSE,
          angles |-> Append(linspace(Len(cats)), linspace(Len(cats))[Len(cats)]),
          values |-> Append(vals, vals[Len(vals)])]

\* calculate_angles(categories, values): indexing element 0 of an empty array
\* raises IndexError; otherwise the first angle and the first value are appended.
calculate_angles(cats, vals) ==
    IF Len(cats) = 0 \/ Len(vals) = 0
    THEN [raised |-> TRUE, angles |-> <<>>, values |-> <<>>]
    ELSE [raised |-> FALSE,
          angles |-> Append(linspace(Len(cats)), linspace(Len(cats))[1]),
          values |-> Append(vals, vals[1])]

-----------------------------------------------------------------------------
(* radar.py: calculate_overlap.  Coordinates are integers counting            *)
(* sqrt(2)/2 / GridDen: the four radar angles are odd multiples of pi/4,      *)
(* whose cosine and sine are +-sqrt(2)/2.                                     *)

\* the odd k with angle = k * pi/4
EighthTurns(a) == (4 * a.num) \div a.den
CosU(a) == IF EighthTurns(a) % 8 \in {1, 7} THEN 1 ELSE -1
SinU(a) == IF EighthTurns(a) % 8 \in {1, 3} THEN 1 ELSE -1

\* np.column_stack((np.cos(angles) * values, np.sin(angles) * values))
Vertex(val, ang) == <<GridDen * CosU(ang) * val, GridDen * SinU(ang) * val>>
Polygon(vals, angs) == [i \in DOMAIN vals |-> Vertex(vals[i], angs[i])]

RECURSIVE MinOf(_)
MinOf(S) ==
    LET x == CHOOSE y \in S : TRUE
    IN  IF S = {x} THEN x
        ELSE LET m == MinOf(S \ {x}) IN IF x < m THEN x ELSE m

\* bbox: [min x, max x, min y, max y] over both polygons
BBox(poly1, poly2) ==
    LET xs == {poly1[i][1] : i \in DOMAIN poly1} \cup {poly2[i][1] : i \in DOMAIN poly2}
        ys == {poly1[i][2] : i \in DOMAIN poly1} \cup {poly2[i][2] : i \in DOMAIN poly2}
    IN  <<MinOf(xs), MaxOf(xs), MinOf(ys), MaxOf(ys)>>

\* rng.uniform(low, high): a value of [low, high), low itself when high = low
Uniform(low, high) == IF low = high THEN {low} ELSE low..(high - 1)

\* pt lies on the closed segment from a to b
OnSegment(pt, a, b) ==
    /\ (b[1] - a[1]) * (pt[2] - a[2]) = (b[2] - a[2]) * (pt[1] - a[1])
    /\ (pt[1] - a[1]) * (pt[1] - b[1]) <= 0
    /\ (pt[2] - a[2]) * (pt[2] - b[2]) <= 0
OnBoundary(poly, pt) ==
    \E i \in DOMAIN poly : OnSegment(pt, poly[i], poly[(i % Len(poly)) + 1])

\* The points x = rng.uniform(bbox[0], bbox[1]), y = rng.uniform(bbox[2], bbox[3])
\* can give.  A box without extent gives its one point; otherwise the point is
\* in general position: a uniform double pair lies exactly on an edge of a
\* polygon with probability of the order of 2^-52, and only points off the
\* edges are drawn here.
SamplePoints(box, poly1, poly2) ==
    IF box[1] = box[2] /\ box[3] = box[4] THEN {<<box[1], box[3]>>}
    ELSE {pt \in Uniform(box[1], box[2]) \X Uniform(box[3], box[4]) :
            ~OnBoundary(poly1, pt) /\ ~OnBoundary(poly2, pt)}

\* one edge v0 -> v1 of the crossings test of Path.contains_points: the edge
\* toggles the flag when its ends lie on opposite sides of the point's
\* horizontal and the +X ray from the point meets it
Crosses(pt, v0, v1) ==
    LET yflag0 == v0[2] >= pt[2]
        yflag1 == v1[2] >= pt[2]
    IN  /\ yflag0 # yflag1
        /\ (((v1[2] - pt[2]) * (v0[1] - v1[1]) >= (v1[1] - pt[1]) * (v0[2] - v1[2]))
                <=> yflag1)

\* Path.contains_points for one point: an odd number of crossed edges, the
\* closing edge from the last vertex back to the first included
contains_point(poly, pt) ==
    LET n == Len(poly)
        crossed == {i \in 1..n : Crosses(pt, poly[i], poly[(i % n) + 1])}
    IN  Cardinality(crossed) % 2 = 1

\* np.sum of a boolean array built from two
CountBoth(a, b) == Cardinality({k \in DOMAIN a : a[k] /\ b[k]})
\* the union counted as the points inside exactly one polygon
CountEither_ExactlyOne(a, b) == Cardinality({k \in DOMAIN a : a[k] # b[k]})
CountEither(a, b) == Cardinality({k \in DOMAIN a : a[k] \/ b[k]})

\* the ratio without its guard: 0 / 0 is NaN
OverlapValue_Unguarded(intersection, union) ==
    IF union = 0 THEN NaN
    ELSE [kind |-> "num", fp |-> 100 * ((intersection * Scale) \div union)]

\* (intersection / union) * 100 if union > 0 else 0
OverlapValue(intersection, union) ==
    IF union > 0 THEN FNum(100 * ((intersection * Scale) \div union)) ELSE FNum(0)

-----------------------------------------------------------------------------
(* calculate_angles on its own *)

CategoryLists == {SubSeq(CategoryNames, 1, n) : n \in 0..MaxCats}

InitAngles ==
    /\ pc = "calculate_angles"
    /\ err = NoErr
    /\ file = NoFile /\ df = NoFrame /\ df_adjusted = <<>> /\ X = <<>> /\ Y = <<>>
    /\ data1 = NoData /\ data2 = <<>>
    /\ categories \in CategoryLists
    /\ values1 \in [1..Len(categories) -> 0..MaxMag]
    /\ angles = <<>> /\ values1_array = <<>> /\ values2_array = <<>>
    /\ polygon1 = <<>> /\ polygon2 = <<>> /\ bbox = <<>>
    /\ in_poly1 = <<>> /\ in_poly2 = <<>> /\ overlap = <<>>
    /\ steps = <<>> /\ title = <<>>
    /\ graph_type = "none" /\ names = <<>> /\ team_avg = <<>> /\ row_idx = 0
    /\ person_dir = <<>> /\ dirs = {} /\ requests = <<>>

calculate_angles_return ==
    /\ pc = "calculate_angles"
    /\ ~calculate_angles(categories, values1).raised
    /\ angles' = calculate_angles(categories, values1).angles
    /\ values1_array' = calculate_angles(categories, values1).values
    /\ pc' = "returned"
    /\ UNCHANGED <<err, projVars, mainVars, data1, data2, categories, values1, values2_array,
                   polygon1, polygon2, bbox, in_poly1, in_poly2, overlap, steps, title>>

calculate_angles_raise ==
    /\ pc = "calculate_angles"
    /\ calculate_angles(categories, values1).raised
    /\ pc' = "raised"
    /\ err' = [kind |-> "IndexError", missing |-> {}]
    /\ UNCHANGED <<projVars, mainVars, radarVars>>

NextAngles == calculate_angles_return \/ calculate_angles_raise

SpecAngles == InitAngles /\ [][NextAngles]_vars

-----------------------------------------------------------------------------
(* Strings are sequences of one-character strings; f-strings concatenate.    *)

S_A == <<"A">>
S_B == <<"B">>
S_Comparison == <<"C", "o", "m", "p", "a", "r", "i", "s", "o", "n", ":", " ">>
S_vs == <<" ", "v", "s", " ">>
S_CommaSpace == <<",", " ">>

\* Python values a dict entry can hold here: None, a str, the float nan
None == [kind |-> "none", s |-> <<>>]
Str(s) == [kind |-> "str", s |-> s]
NaNValue == [kind |-> "nan", s |-> <<>>]

\* data.get(key): None when the key is absent
Get(data, key) == IF key \in DOMAIN data THEN data[key] ELSE None
\* bool(v): None and the empty string are false, nan (a non-zero float) is true
Truthy(v) ==
    IF v.kind = "none" THEN FALSE
    ELSE IF v.kind = "str" THEN v.s # <<>>
    ELSE TRUE
\* f"{v}": a str is itself, nan is "nan", None is "None"
Format(v) ==
    IF v.kind = "str" THEN v.s
    ELSE IF v.kind = "nan" THEN <<"n", "a", "n">>
    ELSE <<"N", "o", "n", "e">>

\* pd.isna taken to be false of everything
IsNa_Never(v) == FALSE

\* pd.isna(v)
IsNa(v) == v.kind \in {"none", "nan"}

\* _format_title(data): data["Name"] is a string, data["Note"] a Python value
_format_title(data) ==
    LET note == Get(data, "Note")
    IN  IF Truthy(note) /\ ~IsNa(note)
        THEN data["Name"] \o S_CommaSpace \o Format(note)
        ELSE data["Name"]

-----------------------------------------------------------------------------
(* _format_title on its own *)

\* longest Name and longest Note of the records _format_title is called with
MaxName == 2
MaxNote == 2

RECURSIVE StringsOver(_, _)
\* the strings of exactly n characters of the set chars
StringsOver(chars, n) ==
    IF n = 0 THEN {<<>>}
    ELSE {Append(t, c) : t \in StringsOver(chars, n - 1), c \in chars}

TitleNames == UNION {StringsOver({"G", "r"}, n) : n \in 1..MaxName}
TitleNotes ==
    {None, NaNValue} \cup {Str(t) : t \in UNION {StringsOver({"P", "/", " "}, n) : n \in 0..MaxNote}}
\* dicts with a Name and with or without a Note
TitleData ==
    {[Name |-> n] : n \in TitleNames}
        \cup {[Name |-> n, Note |-> t] : n \in TitleNames, t \in TitleNotes}

InitTitle ==
    /\ pc = "_format_title"
    /\ err = NoErr
    /\ file = NoFile /\ df = NoFrame /\ df_adjusted = <<>> /\ X = <<>> /\ Y = <<>>
    /\ data1 \in TitleData
    /\ data2 = <<>>
    /\ categories = <<>> /\ values1 = <<>>
    /\ angles = <<>> /\ values1_array = <<>> /\ values2_array = <<>>
    /\ polygon1 = <<>> /\ polygon2 = <<>> /\ bbox = <<>>
    /\ in_poly1 = <<>> /\ in_poly2 = <<>> /\ overlap = <<>>
    /\ steps = <<>> /\ title = <<>>
    /\ graph_type = "none" /\ names = <<>> /\ team_avg = <<>> /\ row_idx = 0
    /\ person_dir = <<>> /\ dirs = {} /\ requests = <<>>

format_title_return ==
    /\ pc = "_format_title"
    /\ title' = _format_title(data1)
    /\ pc' = "returned"
    /\ UNCHANGED <<err, projVars, mainVars, data1, data2, categories, values1, angles,
                   values1_array, values2_array, polygon1, polygon2, bbox,
                   in_poly1, in_poly2, overlap, steps>>

NextTitle == format_title_return

SpecTitle == InitTitle /\ [][NextTitle]_vars

-----------------------------------------------------------------------------
(* radar_chart *)

\* the records radar_chart is called with: the four trait scores and the Name
RadarData ==
    {[c \in {"Owl", "Dove", "Peacock", "Eagle", "Name"} |->
         IF c = "Name" THEN S_A ELSE d[c]] :
        d \in [{"Owl", "Dove", "Peacock", "Eagle"} -> 0..MaxMag]}

InitRadar ==
    /\ pc = "radar_chart"
    /\ err = NoErr
    /\ file = NoFile /\ df = NoFrame /\ df_adjusted = <<>> /\ X = <<>> /\ Y = <<>>
    /\ data1 \in RadarData
    /\ data2 \in {<<>>} \cup {<<d>> : d \in RadarData}
    /\ categories = <<>> /\ values1 = <<>>
    /\ angles = <<>> /\ values1_array = <<>> /\ values2_array = <<>>
    /\ polygon1 = <<>> /\ polygon2 = <<>> /\ bbox = <<>>
    /\ in_poly1 = <<>> /\ in_poly2 = <<>> /\ overlap = <<>>
    /\ steps = <<>> /\ title = <<>>
    /\ graph_type = "none" /\ names = <<>> /\ team_avg = <<>> /\ row_idx = 0
    /\ person_dir = <<>> /\ dirs = {} /\ requests = <<>>

\* values1 = [data1[cat] ...]; angles, values1_array = calculate_angles(...)
radar_values ==
    /\ pc = "radar_chart"
    /\ categories' = ordered_categories
    /\ values1' = [i \in DOMAIN ordered_categories |-> data1[ordered_categories[i]]]
    /\ angles' = calculate_angles(categories', values1').angles
    /\ values1_array' = calculate_angles(categories', values1').values
    /\ pc' = "background"
    /\ UNCHANGED <<err, projVars, mainVars, data1, data2, values2_array, polygon1, polygon2, bbox,
                   in_poly1, in_poly2, overlap, steps, title>>

\* setup_plot, add_grid, add_quadrants, add_bird_images, add_quadrant_labels,
\* add_axis_labels: the background layers, drawn in this order
radar_background ==
    /\ pc = "background"
    /\ steps' = steps \o <<"setup_plot", "add_grid", "add_quadrants", "add_bird_images",
                           "add_quadrant_labels", "add_axis_labels">>
    /\ pc' = "data"
    /\ UNCHANGED <<err, projVars, mainVars, data1, data2, categories, values1, angles,
                   values1_array, values2_array, polygon1, polygon2, bbox,
                   in_poly1, in_poly2, overlap, title>>

\* if data2: the second polygon is closed and both are drawn
radar_compare ==
    /\ pc = "data"
    /\ data2 # <<>>
    /\ values2_array' =
          calculate_angles(ordered_categories,
              [i \in DOMAIN ordered_categories |-> data2[1][ordered_categories[i]]]).values
    /\ steps' = Append(steps, "plot_with_overlap")
    /\ pc' = "calculate_overlap"
    /\ UNCHANGED <<err, projVars, mainVars, data1, data2, categories, values1, angles,
                   values1_array, polygon1, polygon2, bbox, in_poly1, in_poly2, overlap,
                   title>>

\* else: the single polygon and its labels are drawn and the title is formatted
radar_single ==
    /\ pc = "data"
    /\ data2 = <<>>
    /\ steps' = steps \o <<"plot_with_overlap", "add_labels">>
    /\ title' = _format_title(data1)
    /\ pc' = "add_date"
    /\ UNCHANGED <<err, projVars, mainVars, data1, data2, categories, values1, angles,
                   values1_array, values2_array, polygon1, polygon2, bbox,
                   in_poly1, in_poly2, overlap>>

\* calculate_overlap: both magnitude arrays become Cartesian vertices, the two
\* Paths are built and their combined bounding box is taken
overlap_polygons ==
    /\ pc = "calculate_overlap"
    /\ polygon1' = Polygon(values1_array, angles)
    /\ polygon2' = Polygon(values2_array, angles)
    /\ bbox' = BBox(polygon1', polygon2')
    /\ pc' = "sample"
    /\ UNCHANGED <<err, projVars, mainVars, data1, data2, categories, values1, angles,
                   values1_array, values2_array, in_poly1, in_poly2, overlap, steps, title>>

\* calculate_overlap, one sampled point: drawn in the bounding box and classified
\* against both polygons
sample_point ==
    /\ pc = "sample"
    /\ Len(in_poly1) < NumSamples
    /\ \E flags \in {<<contains_point(polygon1, pt), contains_point(polygon2, pt)>> :
                        pt \in SamplePoints(bbox, polygon1, polygon2)} :
          /\ in_poly1' = Append(in_poly1, flags[1])
          /\ in_poly2' = Append(in_poly2, flags[2])
    /\ UNCHANGED <<pc, err, projVars, mainVars, data1, data2, categories, values1, angles,
                   values1_array, values2_array, polygon1, polygon2, bbox, overlap,
                   steps, title>>

\* calculate_overlap returns; radar_chart writes the percentage and the legend
\* and sets the comparison title
overlap_return ==
    /\ pc = "sample"
    /\ Len(in_poly1) = NumSamples
    /\ overlap' = <<OverlapValue(CountBoth(in_poly1, in_poly2),
                                 CountEither(in_poly1, in_poly2))>>
    /\ steps' = steps \o <<"text", "legend">>
    /\ title' = S_Comparison \o data1["Name"] \o S_vs \o data2[1]["Name"]
    /\ pc' = "add_date"
    /\ UNCHANGED <<err, projVars, mainVars, data1, data2, categories, values1, angles,
                   values1_array, values2_array, polygon1, polygon2, bbox,
                   in_poly1, in_poly2>>

\* add_date(ax, config): add_date takes the axes only, so the call raises
\* TypeError; radar_chart logs it and raises it again
add_date_raise ==
    /\ pc = "add_date"
    /\ pc' = "raised"
    /\ err' = [kind |-> "TypeError", missing |-> {}]
    /\ UNCHANGED <<projVars, mainVars, radarVars>>

NextRadar ==
    \/ radar_values
    \/ radar_background
    \/ radar_compare
    \/ radar_single
    \/ overlap_polygons
    \/ sample_point
    \/ overlap_return
    \/ add_date_raise

SpecRadar == InitRadar /\ [][NextRadar]_vars

-----------------------------------------------------------------------------
(* cli.py: main, generate_radar_charts, calculate_team_average.  A path is    *)
(* [absolute, parts], parts being its components in order.                    *)

\* largest number of records of a table handed to main
MaxPeople == 2

S_TeamAvg == <<"T", "e", "a", "m", "A", "v", "g">>
S_Slashed == <<"A", "/", "B", ".", ".">>
S_Blank == <<" ">>
S_out == <<"o", "u", "t">>
S_compare == <<"c", "o", "m", "p", "a", "r", "e">>
S_radar_ == <<"r", "a", "d", "a", "r", "_">>
S_with_ == <<"w", "i", "t", "h", "_">>
S_png == <<".", "p", "n", "g">>
S_with_TeamAvg_png == <<"w", "i", "t", "h", "_", "T", "e", "a", "m", "A", "v", "g", ".", "p", "n", "g">>
S_radar_chart_team_average_png == <<"r", "a", "d", "a", "r", "_", "c", "h", "a", "r", "t", "_", "t", "e", "a", "m", "_", "a", "v", "e", "r", "a", "g", "e", ".", "p", "n", "g">>
S_TeamAverage == <<"T", "e", "a", "m", " ", "A", "v", "e", "r", "a", "g", "e">>
S_TeamAverageProfile == <<"T", "e", "a", "m", " ", "A", "v", "e", "r", "a", "g", "e", " ", "P", "r", "o", "f", "i", "l", "e">>

RECURSIVE Segments(_)
\* the pieces of a string between its "/" characters
Segments(s) ==
    IF s = <<>> THEN << <<>> >>
    ELSE LET rest == Segments(Tail(s))
         IN  IF Head(s) = "/" THEN << <<>> >> \o rest
             ELSE << <<Head(s)>> \o Head(rest) >> \o Tail(rest)

\* the components pathlib keeps of a string: empty pieces and "." are dropped
PathParts(s) == SelectSeq(Segments(s), LAMBDA part : part # <<>> /\ part # <<".">>)

\* base / s: a string that starts with "/" replaces the base
JoinPath(base, s) ==
    IF s # <<>> /\ Head(s) = "/"
    THEN [absolute |-> TRUE, parts |-> PathParts(s)]
    ELSE [absolute |-> base.absolute, parts |-> base.parts \o PathParts(s)]

Cwd == [absolute |-> FALSE, parts |-> <<>>]
Parent(path) ==
    [absolute |-> path.absolute, parts |-> SubSeq(path.parts, 1, Len(path.parts) - 1)]
\* Path.mkdir(exist_ok=True) succeeds on an existing directory and under an
\* existing parent; without the parent it raises FileNotFoundError
MkdirOk(path, ds) == path \in ds \/ (path.parts # <<>> /\ Parent(path) \in ds)

\* Path(config["paths"]["output"])
output_base == JoinPath(Cwd, S_out)

RECURSIVE SumOf(_)
SumOf(series) == IF series = <<>> THEN 0 ELSE Head(series) + SumOf(Tail(series))
\* Series.mean() of an integer column with a row
Mean(series) == FNum((SumOf(series) * Scale) \div Len(series))

\* calculate_team_average(df)
calculate_team_average(frame) ==
    [c \in {"Owl", "Dove", "Peacock", "Eagle", "Name", "Note"} |->
        IF c = "Name" THEN S_TeamAverage
        ELSE IF c = "Note" THEN Str(S_TeamAverageProfile)
        ELSE Mean([i \in DOMAIN frame.rows |-> frame.rows[i][c]])]

\* row.to_dict() of record i: its Name, its four scores and its X and Y
person_data(i) ==
    [c \in {"Owl", "Dove", "Peacock", "Eagle", "Name", "X", "Y"} |->
        IF c = "Name" THEN names[i]
        ELSE IF c = "X" THEN X[i]
        ELSE IF c = "Y" THEN Y[i]
        ELSE df.rows[i][c]]

\* The radar_chart calls the loops of generate_radar_charts and then
\* generate_team_average_radar make for a Name column nm, each as
\* [data1, data2, filename]: data1 and data2 by Name, data2 <<>> when absent.
PersonDir(nm, i) == JoinPath(output_base, nm[i])
CompareDir(nm, i) == JoinPath(PersonDir(nm, i), S_compare)
IndividualChart(nm, i) ==
    [data1 |-> nm[i], data2 |-> <<>>,
     filename |-> JoinPath(PersonDir(nm, i), S_radar_ \o nm[i] \o S_png)]
TeamAvgChart(nm, i) ==
    [data1 |-> nm[i], data2 |-> <<S_TeamAverage>>,
     filename |-> JoinPath(CompareDir(nm, i), S_with_TeamAvg_png)]
\* the inner loop: every row whose Name differs from this person's
OtherCharts(nm, i) ==
    LET others == SelectSeq([j \in 1..Len(nm) |-> j], LAMBDA j : nm[j] # nm[i])
    IN  [k \in 1..Len(others) |->
            [data1 |-> nm[i], data2 |-> <<nm[others[k]]>>,
             filename |-> JoinPath(CompareDir(nm, i), S_with_ \o nm[others[k]] \o S_png)]]
TeamChart ==
    [data1 |-> S_TeamAverage, data2 |-> <<>>,
     filename |-> JoinPath(output_base, S_radar_chart_team_average_png)]
RECURSIVE ChartsFrom(_, _)
ChartsFrom(nm, i) ==
    IF i > Len(nm) THEN <<TeamChart>>
    ELSE <<IndividualChart(nm, i), TeamAvgChart(nm, i)>> \o OtherCharts(nm, i)
            \o ChartsFrom(nm, i + 1)
ChartPlan(nm) == ChartsFrom(nm, 1)

\* the Names of the tables main is run on
PersonNames == {S_A, S_B, S_TeamAvg, S_Slashed, S_Blank}
\* their scores: Dove and Owl absent or present
PersonRows == {[Dove |-> d, Owl |-> o, Peacock |-> 0, Eagle |-> 0] : d, o \in BatchScores}

\* main is run in either mode on: no file; 1..MaxPeople named records; one
\* record of a table that lacks one or more trait columns
InitMain ==
    /\ graph_type \in {"radar", "scatter"}
    /\ \/ file = NoFile /\ names = <<>>
       \/ \E n \in 1..MaxPeople : \E r \in [1..n -> PersonRows] :
             \E nm \in [1..n -> PersonNames] : file = CsvFile(AllCols, r) /\ names = nm
       \/ \E cols \in (SUBSET AllCols) \ {AllCols} :
             \E r \in RowsOver(cols, BatchScores, 1) :
                file = CsvFile(cols, r) /\ names = <<S_A>>
    /\ pc = "load"
    /\ df = NoFrame
    /\ df_adjusted = <<>>
    /\ X = <<>>
    /\ Y = <<>>
    /\ err = NoErr
    /\ data1 = NoData /\ data2 = <<>>
    /\ categories = <<>> /\ values1 = <<>>
    /\ angles = <<>> /\ values1_array = <<>> /\ values2_array = <<>>
    /\ polygon1 = <<>> /\ polygon2 = <<>> /\ bbox = <<>>
    /\ in_poly1 = <<>> /\ in_poly2 = <<>> /\ overlap = <<>>
    /\ steps = <<>> /\ title = <<>>
    /\ team_avg = <<>> /\ row_idx = 0
    /\ person_dir = <<>> /\ dirs = {Cwd} /\ requests = <<>>

\* main in radar mode enters generate_radar_charts: the output directory is
\* made, the team average is taken and the outer loop starts at the first row
generate_radar_charts ==
    /\ pc = "done"
    /\ graph_type = "radar"
    /\ dirs' = dirs \cup {output_base}
    /\ team_avg' = calculate_team_average(df)
    /\ row_idx' = 1
    /\ pc' = "iterrows"
    /\ UNCHANGED <<err, projVars, radarVars, graph_type, names, person_dir, requests>>

\* one record of the outer loop: its directory and the compare directory
\* under it are made
person_dirs ==
    /\ pc = "iterrows"
    /\ row_idx <= Len(names)
    /\ MkdirOk(JoinPath(output_base, names[row_idx]), dirs)
    /\ person_dir' = JoinPath(output_base, names[row_idx])
    /\ dirs' = dirs \cup {person_dir', JoinPath(person_dir', S_compare)}
    /\ pc' = "individual"
    /\ UNCHANGED <<err, projVars, radarVars, graph_type, names, team_avg, row_idx, requests>>

\* person_dir.mkdir without the parent directory raises FileNotFoundError
person_dirs_raise ==
    /\ pc = "iterrows"
    /\ row_idx <= Len(names)
    /\ ~MkdirOk(JoinPath(output_base, names[row_idx]), dirs)
    /\ person_dir' = JoinPath(output_base, names[row_idx])
    /\ pc' = "raised"
    /\ err' = [kind |-> "FileNotFoundError", missing |-> {}]
    /\ UNCHANGED <<projVars, radarVars, graph_type, names, team_avg, row_idx, dirs, requests>>

\* the individual chart of the record: radar_chart(person_data, filename, config)
individual_chart ==
    /\ pc = "individual"
    /\ requests' = Append(requests,
          [data1 |-> names[row_idx], data2 |-> <<>>,
           filename |-> JoinPath(person_dir, S_radar_ \o names[row_idx] \o S_png)])
    /\ data1' = person_data(row_idx)
    /\ data2' = <<>>
    /\ pc' = "radar_chart"
    /\ UNCHANGED <<err, projVars, graph_type, names, team_avg, row_idx, person_dir, dirs,
                   categories, values1, angles, values1_array, values2_array,
                   polygon1, polygon2, bbox, in_poly1, in_poly2, overlap, steps, title>>

\* main in scatter mode: scatter_chart(df, filename, config) hands the config
\* dict to load_config as the path to open, which raises TypeError;
\* scatter_chart logs it and raises it again
scatter_chart_raise ==
    /\ pc = "done"
    /\ graph_type = "scatter"
    /\ dirs' = dirs \cup {output_base}
    /\ pc' = "raised"
    /\ err' = [kind |-> "TypeError", missing |-> {}]
    /\ UNCHANGED <<projVars, radarVars, graph_type, names, team_avg, row_idx, person_dir,
                   requests>>

NextMain ==
    \/ load_csv_data_exit
    \/ load_csv_data
    \/ adjust_raise
    \/ adjust_scores
    \/ calculate_coords
    \/ scale_X
    \/ scale_Y
    \/ generate_radar_charts
    \/ person_dirs
    \/ person_dirs_raise
    \/ individual_chart
    \/ radar_values
    \/ radar_background
    \/ radar_single
    \/ add_date_raise
    \/ scatter_chart_raise

SpecMain == InitMain /\ [][NextMain]_vars

-----------------------------------------------------------------------------
(* Properties of the coordinate projector *)

Traits == {"Dove", "Owl", "Peacock", "Eagle"}
Rows == DOMAIN df.rows

\* the value the spec gives a trait of a row after the dominant-trait boost:
\* a trait no other trait exceeds takes the a with a <= 1.2 * score < a + 1
IsRowMax(row, c) == \A c2 \in Traits : row[c2] <= row[c]
SpecAdjusted(row, c) ==
    IF IsRowMax(row, c)
    THEN CHOOSE a \in 0..(2 * row[c]) : 10 * a <= 12 * row[c] /\ 12 * row[c] < 10 * (a + 1)
    ELSE row[c]
SpecRawX(row) ==
    (SpecAdjusted(row, "Dove") + SpecAdjusted(row, "Owl"))
        - (SpecAdjusted(row, "Peacock") + SpecAdjusted(row, "Eagle"))
SpecRawY(row) ==
    (SpecAdjusted(row, "Peacock") + SpecAdjusted(row, "Dove"))
        - (SpecAdjusted(row, "Eagle") + SpecAdjusted(row, "Owl"))

Zero == [kind |-> "num", fp |-> 0]
\* max_value * tanh(v / m) for integers v and m
ScaledBy(v, m) == Times(max_value, Tanh(TrueDivide(v, m)))
MaxTanhOne == ScaledBy(1, 1)
\* m is the largest magnitude of the series of integers raw
IsBatchMax(m, raw) ==
    /\ \A i \in DOMAIN raw : Abs(raw[i]) <= m
    /\ \E i \in DOMAIN raw : Abs(raw[i]) = m

\* C1: a column whose unscaled elements are all zero is scaled to zero in every
\* element (never NaN): at the end of process_personality_data, if every rawX of
\* the batch is 0 then every X is 0, and likewise for Y.
C1_ZeroSeriesScalesToZero ==
    pc = "done" =>
        /\ (\A i \in Rows : SpecRawX(df.rows[i]) = 0) => \A i \in Rows : X[i] = Zero
        /\ (\A i \in Rows : SpecRawY(df.rows[i]) = 0) => \A i \in Rows : Y[i] = Zero

\* C2: once the scores are adjusted, in every record each trait equal to the
\* record's maximum holds its score times 1.2 truncated toward zero, and each
\* trait below the maximum holds its original score.
C2_BoostEveryMaximum ==
    pc \in {"coords", "scaleX", "scaleY", "done"} =>
        \A i \in Rows : \A c \in Traits :
            LET s == df.rows[i][c]
                a == df_adjusted[i][c]
            IN  IF IsRowMax(df.rows[i], c)
                THEN 10 * a <= 12 * s /\ 12 * s < 10 * (a + 1)
                ELSE a = s

\* a record with two tied maxima that the truncation cuts, and a lower non-zero trait
C2_Witness ==
    /\ pc = "coords"
    /\ \E i \in Rows : \E c1, c2, c3 \in Traits :
          /\ c1 # c2
          /\ IsRowMax(df.rows[i], c1) /\ IsRowMax(df.rows[i], c2)
          /\ (12 * df.rows[i][c1]) % 10 # 0
          /\ df_adjusted[i][c1] > df.rows[i][c1]
          /\ df.rows[i][c3] > 0 /\ ~IsRowMax(df.rows[i], c3)
          /\ df_adjusted[i][c3] = df.rows[i][c3]

\* C3: the unscaled coordinates of every record are the fixed contrasts of its
\* boosted scores: rawX = (Dove' + Owl') - (Peacock' + Eagle') and
\* rawY = (Peacock' + Dove') - (Eagle' + Owl'), the primed scores being the
\* record's scores after the dominant-trait boost.
C3_AxesFromAdjustedScores ==
    pc = "scaleX" =>
        \A i \in Rows :
            /\ X[i] = SpecRawX(df.rows[i])
            /\ Y[i] = SpecRawY(df.rows[i])
            /\ X[i] = (df_adjusted[i]["Dove"] + df_adjusted[i]["Owl"])
                        - (df_adjusted[i]["Peacock"] + df_adjusted[i]["Eagle"])
            /\ Y[i] = (df_adjusted[i]["Peacock"] + df_adjusted[i]["Dove"])
                        - (df_adjusted[i]["Eagle"] + df_adjusted[i]["Owl"])

\* a record whose coordinates differ from the contrasts of its raw scores
C3_Witness ==
    /\ pc = "scaleX"
    /\ \E i \in Rows :
          /\ X[i] # (df.rows[i]["Dove"] + df.rows[i]["Owl"])
                        - (df.rows[i]["Peacock"] + df.rows[i]["Eagle"])
          /\ Y[i] # (df.rows[i]["Peacock"] + df.rows[i]["Dove"])
                        - (df.rows[i]["Eagle"] + df.rows[i]["Owl"])

\* C4: at the end of process_personality_data every X is
\* max_value * tanh(rawX / M_X), M_X the largest |rawX| of the whole batch, and
\* every Y is max_value * tanh(rawY / M_Y), M_Y the largest |rawY| of the batch.
C4_BatchRelativeScaling ==
    pc = "done" =>
        LET rawX == [i \in Rows |-> SpecRawX(df.rows[i])]
            rawY == [i \in Rows |-> SpecRawY(df.rows[i])]
        IN  /\ \E mx \in {Abs(rawX[i]) : i \in Rows} :
                  /\ IsBatchMax(mx, rawX)
                  /\ \A i \in Rows : X[i] = ScaledBy(rawX[i], mx)
            /\ \E my \in {Abs(rawY[i]) : i \in Rows} :
                  /\ IsBatchMax(my, rawY)
                  /\ \A i \in Rows : Y[i] = ScaledBy(rawY[i], my)

\* two records with the same scores in two different batches: a record whose X is
\* not the X it has as a batch of its own, in a batch whose two maxima differ
C4_Witness ==
    /\ pc = "done"
    /\ Cardinality(Rows) >= 2
    /\ \E i, j \in Rows :
          /\ SpecRawX(df.rows[i]) # 0
          /\ Abs(SpecRawX(df.rows[i])) < Abs(SpecRawX(df.rows[j]))
          /\ X[i] # ScaledBy(SpecRawX(df.rows[i]), Abs(SpecRawX(df.rows[i])))
          /\ \A k \in Rows : Abs(SpecRawX(df.rows[k])) <= Abs(SpecRawX(df.rows[j]))
          /\ \A k \in Rows : Abs(SpecRawY(df.rows[k])) < Abs(SpecRawX(df.rows[j]))
          /\ \E k \in Rows : SpecRawY(df.rows[k]) # 0

ScenarioOne ==
    /\ file.exists
    /\ file.columns = Traits
    /\ file.rows = <<[Dove |-> 10, Owl |-> 10, Peacock |-> 0, Eagle |-> 0]>>

\* C5 as stated: for the batch of the single record {Dove 10, Owl 10, Peacock 0,
\* Eagle 0}, rawX is 24 and both X and Y equal max_value * tanh(1).
C5_Original ==
    ScenarioOne =>
        /\ pc = "scaleX" => X[1] = 24
        /\ pc = "done" => X[1] = MaxTanhOne /\ Y[1] = MaxTanhOne

\* C5 as amended: for that batch rawX is 24 and rawY is 0; X equals
\* max_value * tanh(1), and Y, the scaling of an all-zero column, does not.
C5_ScenarioOne ==
    ScenarioOne =>
        /\ pc = "scaleX" => X[1] = 24 /\ Y[1] = 0
        /\ pc = "done" => X[1] = MaxTanhOne /\ Y[1] # MaxTanhOne

C5_Witness == ScenarioOne /\ pc = "done" /\ X[1] = MaxTanhOne

\* C6: every scaled element has the sign of its unscaled element, a larger
\* unscaled magnitude gives a strictly larger scaled magnitude, and every scaled
\* element lies strictly between -max_value and max_value.
C6_SignMonotoneBounded ==
    pc = "done" =>
        /\ \A i \in Rows :
              /\ X[i].kind = "num" /\ Y[i].kind = "num"
              /\ Sign(X[i].fp) = Sign(SpecRawX(df.rows[i]))
              /\ Sign(Y[i].fp) = Sign(SpecRawY(df.rows[i]))
              /\ Abs(X[i].fp) < max_value * Scale
              /\ Abs(Y[i].fp) < max_value * Scale
        /\ \A i, j \in Rows :
              /\ Abs(SpecRawX(df.rows[i])) < Abs(SpecRawX(df.rows[j]))
                    => Abs(X[i].fp) < Abs(X[j].fp)
              /\ Abs(SpecRawY(df.rows[i])) < Abs(SpecRawY(df.rows[j]))
                    => Abs(Y[i].fp) < Abs(Y[j].fp)

\* C7: a table that lacks any of the four trait columns never gets past the
\* column selection: the run ends raised with a KeyError that names exactly the
\* absent columns, and no X or Y is ever computed for any record.
C7_MissingColumnAborts ==
    (file.exists /\ ~(Traits \subseteq file.columns)) =>
        /\ pc \in {"load", "adjust", "raised"}
        /\ X = <<>> /\ Y = <<>> /\ df_adjusted = <<>>
        /\ "X" \notin df.columns /\ "Y" \notin df.columns
        /\ pc = "raised" =>
              /\ err.kind = "KeyError"
              /\ err.missing = Traits \ file.columns
              /\ err.missing # {}
        /\ pc # "raised" => err = NoErr

C7_Witness ==
    /\ pc = "raised"
    /\ err.kind = "KeyError"
    /\ err.missing = {"Owl"}
    /\ file.rows # <<>>

-----------------------------------------------------------------------------
(* Properties of the radar geometry and the overlap estimator *)

Compared == data2 # <<>> /\ overlap # <<>>
SampleIndex == DOMAIN in_poly1
InsideBoth == {k \in SampleIndex : in_poly1[k] /\ in_poly2[k]}
InsideEither == {k \in SampleIndex : in_poly1[k] \/ in_poly2[k]}

\* the traits in radar order, each with the next one around the circle
Neighbours == {<<"Owl", "Dove">>, <<"Dove", "Peacock">>, <<"Peacock", "Eagle">>,
               <<"Eagle", "Owl">>}
\* a radar polygon has area only in a quadrant whose two traits are both positive
HasAreaIn(d, q) == d[q[1]] > 0 /\ d[q[2]] > 0
NoArea(d) == \A q \in Neighbours : ~HasAreaIn(d, q)
NoSpatialIntersection(d, e) == \A q \in Neighbours : ~(HasAreaIn(d, q) /\ HasAreaIn(e, q))

\* C8: calculate_overlap returns 100 * (points inside both) / (points inside
\* either) when a sampled point is inside either polygon and 0 when none is;
\* the result lies in [0, 100] and is 0 for polygons with no spatial intersection.
C8_OverlapIsIntersectionOverUnion ==
    Compared =>
        /\ Len(in_poly1) = NumSamples /\ Len(in_poly2) = NumSamples
        /\ overlap[1].kind = "num"
        /\ InsideEither # {} =>
              overlap[1].fp = 100 * ((Cardinality(InsideBoth) * Scale)
                                        \div Cardinality(InsideEither))
        /\ InsideEither = {} => overlap[1].fp = 0
        /\ 0 <= overlap[1].fp /\ overlap[1].fp <= 100 * Scale
        /\ NoSpatialIntersection(data1, data2[1]) => overlap[1].fp = 0

\* a point inside both polygons and a point inside only one: half the union
C8_Witness ==
    /\ Compared
    /\ Cardinality(InsideBoth) = 1
    /\ Cardinality(InsideEither) = 2
    /\ overlap[1].fp = 50 * Scale

\* C9 as stated: two records with identical trait scores compared by radar_chart
\* get an overlap percentage of at least 99.
C9_Original ==
    (Compared /\ data2[1] = data1) => overlap[1].kind = "num" /\ overlap[1].fp >= 99 * Scale

\* C9 as amended: two records with identical trait scores get exactly 100 when
\* a sampled point fell inside their polygon and 0 when none did; a polygon
\* without area (no two neighbouring traits both positive) always gets 0.
C9_IdenticalRecords ==
    (Compared /\ data2[1] = data1) =>
        /\ overlap[1].kind = "num"
        /\ (\E k \in SampleIndex : in_poly1[k]) => overlap[1].fp = 100 * Scale
        /\ (\A k \in SampleIndex : ~in_poly1[k]) => overlap[1].fp = 0
        /\ NoArea(data1) => overlap[1].fp = 0

\* identical records whose polygon has area and was hit by a sampled point
C9_Witness ==
    /\ Compared
    /\ data2[1] = data1
    /\ ~NoArea(data1)
    /\ \E k \in SampleIndex : in_poly1[k] /\ in_poly2[k]
    /\ overlap[1].fp = 100 * Scale

\* C10: for N >= 1 categories with N magnitudes calculate_angles returns N + 1
\* angles and N + 1 magnitudes, the first N magnitudes being the inputs in
\* order, the last angle equal to the first and the last magnitude to the first.
C10_ClosedPolygon ==
    LET n == Len(categories) IN
    /\ (pc = "raised" /\ err.kind = "IndexError") => n = 0
    /\ pc = "returned" =>
          /\ n >= 1
          /\ Len(angles) = n + 1
          /\ Len(values1_array) = n + 1
          /\ \A i \in 1..n : values1_array[i] = values1[i]
          /\ angles[n + 1] = angles[1]
          /\ values1_array[n + 1] = values1_array[1]
          /\ \A i \in 2..n : angles[i] # angles[1]

\* four categories whose first and last magnitudes differ: five angles, five magnitudes
C10_Witness ==
    /\ pc = "returned"
    /\ Len(categories) = 4
    /\ Len(angles) = 5 /\ Len(values1_array) = 5
    /\ values1[1] # values1[4]
    /\ values1_array[5] = values1[1]

-----------------------------------------------------------------------------
(* Properties of the radar angles *)

RadarOrder == <<"Owl", "Dove", "Peacock", "Eagle">>
\* the angle b minus the angle a equals a quarter of the full circle
QuarterTurnApart(a, b) == a.den = b.den /\ 4 * (b.num - a.num) = 2 * a.den
\* the turn from direction a to direction b, with the y axis pointing up as
\* setup_plot leaves it: positive counter-clockwise, negative clockwise
Turn(a, b) == CosU(a) * SinU(b) - SinU(a) * CosU(b)
BottomRight(a) == CosU(a) > 0 /\ SinU(a) < 0
AnglesSet == pc \notin {"radar_chart"}

\* the parts C11 and its amended form share: the first angle is -pi/4 in the
\* bottom-right quadrant, successive angles are a quarter circle apart, the i-th
\* magnitude of either polygon is the score of the i-th of Owl, Dove, Peacock,
\* Eagle, and both polygons of a comparison put it at the i-th angle.
AnglesInFixedOrder ==
    /\ Len(angles) = 5
    /\ 4 * angles[1].num = -(angles[1].den)
    /\ BottomRight(angles[1])
    /\ \A i \in 1..3 : QuarterTurnApart(angles[i], angles[i + 1])
    /\ angles[5] = angles[1]
    /\ \A i \in 1..4 : values1_array[i] = data1[RadarOrder[i]]
    /\ values2_array # <<>> => \A i \in 1..4 : values2_array[i] = data2[1][RadarOrder[i]]
    /\ polygon1 # <<>> =>
          \A i \in 1..4 :
              /\ polygon1[i] = Vertex(data1[RadarOrder[i]], angles[i])
              /\ polygon2[i] = Vertex(data2[1][RadarOrder[i]], angles[i])

C12_EmptyInputReturnsEmpty ==
    (Len(categories) = 0 /\ Len(values1) = 0) =>
        /\ pc # "raised"
        /\ err = NoErr
        /\ pc = "returned" => angles = <<>> /\ values1_array = <<>>

-----------------------------------------------------------------------------
(* Properties of the chart title *)

HasNote == "Note" \in DOMAIN data1
NoteOf == IF HasNote THEN data1["Note"] ELSE [kind |-> "none", s |-> <<>>]

\* C15: _format_title returns exactly the Name when the Note is absent, None,
\* the empty string or NaN, and the Name, a comma, a space and the Note when the
\* Note is a non-empty string.
C15_TitleWithOptionalNote ==
    pc = "returned" =>
        /\ (~HasNote \/ NoteOf.kind \in {"none", "nan"}
                \/ (NoteOf.kind = "str" /\ NoteOf.s = <<>>))
              => title = data1["Name"]
        /\ (HasNote /\ NoteOf.kind = "str" /\ NoteOf.s # <<>>)
              => title = data1["Name"] \o <<",", " ">> \o NoteOf.s

\* Grace's title with the note P/ : the name, ", " and the note
C15_Witness ==
    /\ pc = "returned"
    /\ HasNote /\ NoteOf = [kind |-> "str", s |-> <<"P", "/">>]
    /\ data1["Name"] = <<"G", "r">>
    /\ title = <<"G", "r", ",", " ", "P", "/">>

-----------------------------------------------------------------------------
(* Properties of a whole run of main *)

Ended == pc \in {"raised", "exit"}
RadarRun == graph_type = "radar"
ScatterRun == graph_type = "scatter"
CompleteTable == file.exists /\ {"Dove", "Owl", "Peacock", "Eagle"} \subseteq file.columns
People == Len(names)
DistinctNames == \A i, j \in DOMAIN names : i # j => names[i] # names[j]
ChartCount == People + People + People * (People - 1) + 1

\* C13: a run that ends in an error has invoked no drawing step and requested
\* no chart; a run that invoked any has produced every chart of the batch.
C13_NoPartialOutput ==
    Ended => steps = <<>> /\ requests = <<>>

\* the characters a name may keep, and the blank ones
SafeChars == {"A", "B", "T", "e", "a", "m", "v", "g", "-", "_"}
IsBlank(s) == \A k \in DOMAIN s : s[k] = " "
IsSafe(s) == s # <<>> /\ \A k \in DOMAIN s : s[k] \in SafeChars

\* C14: the directory of a record is the output directory plus one component
\* made from its Name: never empty, without a separator or a trailing dot,
\* not blank (a blank Name gives "unnamed"), and the Name itself when the Name
\* has only letters, digits, "-" and "_".
C14_NamesSanitizedInPaths ==
    person_dir # <<>> =>
        /\ Len(person_dir.parts) = Len(output_base.parts) + 1
        /\ LET used == person_dir.parts[Len(person_dir.parts)]
           IN  /\ used # <<>>
               /\ \A k \in DOMAIN used : used[k] # "/"
               /\ used[Len(used)] # "."
               /\ ~IsBlank(used)
               /\ IsBlank(names[row_idx]) => used = <<"u", "n", "n", "a", "m", "e", "d">>
               /\ IsSafe(names[row_idx]) => used = names[row_idx]

\* the record an ended radar run is expected to have compared with at the k-th
\* comparison of record i: the k-th of the other records in table order
OtherOf(i, k) == IF k < i THEN k ELSE k + 1

\* C16: a radar run over N records of pairwise distinct names (here names of
\* letters only) has, when it ends, requested N + N + N*(N-1) + 1 charts: for each record in table order
\* its individual chart, its comparison with the team average and its
\* comparison with every other record in table order, and last the
\* team-average chart.
C16_ChartsInOrder ==
    (RadarRun /\ CompleteTable /\ DistinctNames /\ Ended
        /\ \A i \in DOMAIN names : IsSafe(names[i])) =>
        /\ Len(requests) = ChartCount
        /\ \A i \in 1..People :
              LET base == (i - 1) * (People + 1)
              IN  /\ requests[base + 1].data1 = names[i]
                  /\ requests[base + 1].data2 = <<>>
                  /\ requests[base + 2].data1 = names[i]
                  /\ requests[base + 2].data2 = <<S_TeamAverage>>
                  /\ \A k \in 1..(People - 1) :
                        /\ requests[base + 2 + k].data1 = names[i]
                        /\ requests[base + 2 + k].data2 = <<names[OtherOf(i, k)]>>
        /\ requests[ChartCount].data1 = S_TeamAverage
        /\ requests[ChartCount].data2 = <<>>

\* C18: a scatter run on a complete table does not end in an error: the
\* configuration handed to scatter_chart is one it can load, and the chart is
\* drawn and saved.
C18_ScatterChartDrawn ==
    (ScatterRun /\ CompleteTable) => ~Ended /\ err = NoErr

RawMean(c) == [kind |-> "num",
               fp |-> (SumOf([i \in DOMAIN file.rows |-> file.rows[i][c]]) * Scale)
                          \div Len(file.rows)]

\* C20: process_personality_data leaves the four trait scores of every record
\* as the file has them and adds only the X and Y columns; the team average and
\* the magnitudes of a radar polygon are taken from those raw scores.
C20_RawScoresUnchanged ==
    /\ (file.exists /\ pc \notin {"load", "exit"}) =>
          /\ df.rows = file.rows
          /\ file.columns \subseteq df.columns
          /\ df.columns \subseteq file.columns \cup {"X", "Y"}
    /\ pc \in {"scaleX", "scaleY", "done", "iterrows", "individual", "radar_chart"} =>
          df.columns = file.columns \cup {"X", "Y"}
    /\ team_avg # <<>> =>
          \A c \in {"Owl", "Dove", "Peacock", "Eagle"} : team_avg[c] = RawMean(c)
    /\ values1 # <<>> =>
          \A k \in 1..4 : values1[k] = file.rows[row_idx][RadarOrder[k]]

\* the individual chart of a record whose Owl score was boosted in the copy:
\* the polygon and the team average hold the raw score
C20_Witness ==
    /\ pc = "add_date"
    /\ row_idx = 1 /\ People = 2
    /\ file.rows[1]["Owl"] > 0
    /\ df_adjusted[1]["Owl"] > file.rows[1]["Owl"]
    /\ values1[1] = file.rows[1]["Owl"]
    /\ file.rows[2]["Owl"] = 0
    /\ 2 * team_avg["Owl"].fp = file.rows[1]["Owl"] * Scale

-----------------------------------------------------------------------------
(* Properties of one radar_chart call *)

SingleSteps == <<"setup_plot", "add_grid", "add_quadrants", "add_bird_images",
                 "add_quadrant_labels", "add_axis_labels", "plot_with_overlap",
                 "add_labels", "add_date", "title", "savefig">>
CompareSteps == <<"setup_plot", "add_grid", "add_quadrants", "add_bird_images",
                  "add_quadrant_labels", "add_axis_labels", "plot_with_overlap",
                  "text", "legend", "add_date", "title", "savefig">>
IsPrefix(a, b) == Len(a) <= Len(b) /\ a = SubSeq(b, 1, Len(a))

\* C17: radar_chart called with a record of four numeric traits, with or
\* without a second record, takes its drawing steps in order and raises nothing.
C17_RadarChartRunsToSave ==
    /\ pc # "raised"
    /\ err = NoErr
    /\ IF data2 = <<>> THEN IsPrefix(steps, SingleSteps) ELSE IsPrefix(steps, CompareSteps)

=============================================================================
